---------------------------- MODULE Spec2Model ----------------------------
(***************************************************************************)
(* The connector lifecycle engine of pycti: the poll connector and its     *)
(* scheduler loop, the two broker-driven connectors, the live-stream       *)
(* consumer with its cursor, and the TLP gate.                             *)
(*                                                                         *)
(* Collaborators (work API, entity API, file API, bundle submission, the   *)
(* user's run) are calls whose outcome the environment chooses: each       *)
(* returns or raises.  Every call a handler issues is appended to `log`,   *)
(* with its arguments and whether it returned normally.                    *)
(***************************************************************************)
EXTENDS Integers, Sequences, FiniteSets, TLC

(***************************************************************************)
(* Bounds of the model.                                                    *)
(***************************************************************************)
MaxBundles == 2
MaxMarkings == 2
MaxWorkId == 2
MaxEvents == 3
MaxTime == 4
MaxRunTime == 1
MaxStamp == 4

(***************************************************************************)
(* Values.                                                                 *)
(***************************************************************************)
TLPLevels == <<"TLP:WHITE", "TLP:GREEN", "TLP:AMBER", "TLP:RED">>

\* Position of a level in WHITE < GREEN < AMBER < RED (0 when it is none of them).
TLPRank(tlp) ==
  IF \E i \in 1..Len(TLPLevels) : TLPLevels[i] = tlp
    THEN CHOOSE i \in 1..Len(TLPLevels) : TLPLevels[i] = tlp
    ELSE 0

KnownTLP == {TLPLevels[i] : i \in 1..Len(TLPLevels)}

\* The table of check_max_tlp: ceiling -> the levels that may be sent.
allowed_tlps ==
  [max_tlp \in KnownTLP |->
     CASE max_tlp = "TLP:RED"   -> {"TLP:WHITE", "TLP:GREEN", "TLP:AMBER", "TLP:RED"}
       [] max_tlp = "TLP:AMBER" -> {"TLP:WHITE", "TLP:GREEN", "TLP:AMBER"}
       [] max_tlp = "TLP:GREEN" -> {"TLP:WHITE", "TLP:GREEN"}
       [] max_tlp = "TLP:WHITE" -> {"TLP:WHITE"}]

\* allowed_tlps[max_tlp] raises KeyError for a ceiling that is no key of the table.
check_max_tlp_raises(tlp, max_tlp) == max_tlp \notin DOMAIN allowed_tlps

\* Variant: the ceiling itself is not among the levels it allows.
check_max_tlp_strictly_below(tlp, max_tlp) == tlp \in (allowed_tlps[max_tlp] \ {max_tlp})

check_max_tlp(tlp, max_tlp) == tlp \in allowed_tlps[max_tlp]


(***************************************************************************)
(* The state store: get_state returns the mapping, set_state merges a      *)
(* partial mapping into it (last write wins per key).                      *)
(***************************************************************************)
get(mapping, key, default) == IF key \in DOMAIN mapping THEN mapping[key] ELSE default

set_state(mapping, partial) == partial @@ mapping

EmptyState == [k \in {} |-> ""]

(***************************************************************************)
(* One entry of the call log.  Fields a call does not have keep the        *)
(* defaults: work 0, msg "", bundle 0, file "", entity "", applicant "".   *)
(***************************************************************************)
Call(op) ==
  [op |-> op, work |-> 0, msg |-> "", isError |-> FALSE, ok |-> TRUE,
   bundle |-> 0, file |-> "", entity |-> "", applicant |-> ""]

to_received(work, ok) ==
  [Call("to_received") EXCEPT !.work = work,
                              !.msg = "Connector ready to process the operation",
                              !.ok = ok]

to_processed(work, msg, isError, ok) ==
  [Call("to_processed") EXCEPT !.work = work, !.msg = msg, !.isError = isError, !.ok = ok]

\* self._send_bundle(bundle, work_id, ...): one entry per bundle submitted.
send_bundle(work, bundle, ok) ==
  [Call("send_bundle") EXCEPT !.work = work, !.bundle = bundle, !.ok = ok]

\* A `for bundle in bundles` loop of submissions in which the first n_ok calls
\* return and the next one, if there is one, raises and ends the loop.
Submissions(bundles, n_ok, template) ==
  [i \in 1..(IF n_ok < Len(bundles) THEN n_ok + 1 ELSE Len(bundles)) |->
     [template EXCEPT !.bundle = bundles[i], !.ok = (i <= n_ok)]]

(***************************************************************************)
(* What the user's run can do: raise, or return (message, bundles) where   *)
(* bundles is a list of 0..MaxBundles bundles, or None.                    *)
(***************************************************************************)
BundleLists == {[i \in 1..n |-> i] : n \in 0..MaxBundles}

Summaries == {"ok", "done"}

RunOutcomes ==
  {[raised |-> TRUE, run_msg |-> "", bundles_none |-> FALSE, bundles |-> <<>>]}
  \cup {[raised |-> FALSE, run_msg |-> m, bundles_none |-> TRUE, bundles |-> <<>>] :
          m \in Summaries}
  \cup {[raised |-> FALSE, run_msg |-> m, bundles_none |-> FALSE, bundles |-> b] :
          m \in Summaries, b \in BundleLists}

NoRun == [raised |-> FALSE, run_msg |-> "", bundles_none |-> FALSE, bundles |-> <<>>]

\* The call of the user's run with what it returned: the message, and the number
\* of bundles (-1 for None); ok is false when it raised.
run_call(result) ==
  [op |-> "run", work |-> 0, msg |-> result.run_msg, isError |-> FALSE,
   ok |-> ~result.raised,
   bundle |-> IF result.bundles_none THEN -1 ELSE Len(result.bundles),
   file |-> "", entity |-> "", applicant |-> ""]

RunError == "run failed"
ReportError == "work api unreachable"
RemoveError == "file cannot be removed"

VARIABLES
  connector_type,   \* the connector class this process runs
  base_config,      \* its configuration
  state,            \* the persisted state store
  last_run,         \* the last-run marker (0: never set)
  log,              \* the calls issued in the current cycle, in order
  escaped,          \* an exception left the current handler
  message,          \* the inbound broker message of the current cycle
  observable,       \* the entity the enrichment connector read
  pc,               \* where the connector's main thread is
  stop_event,       \* threading.Event of the connector
  work_id,          \* local work_id of issue_call
  run_result,       \* what the user's run returned in the current cycle
  sent,             \* bundles of run_result already submitted
  now,              \* the clock, in seconds
  next_run,         \* when the scheduled job is due
  caller,           \* who called issue_call: start() or the scheduler
  issue_calls,      \* invocations of issue_call since start
  loop_runs,        \* executions of the loop body of start()
  reports,          \* to_processed calls issued since start
  submissions,      \* bundle submissions issued since start
  msg,              \* the stream event being processed
  work_queue,       \* the liveness queue
  stream_alive,     \* the state of the StreamAlive thread
  conn,             \* the stream connection as it was opened
  delivered,        \* events the server has delivered on the connection
  last_id,          \* the id of the last event the server has sent
  feed,             \* the events with an id the server has sent above the cursor
  handed,           \* the ids above the cursor whose event was handed to run
  tlp_checks        \* the latest evaluations of check_max_tlp, newest last

listen_vars == <<message, observable, tlp_checks>>
cycle_vars == <<log, escaped, state, last_run>>
thread_vars == <<stop_event, work_id, run_result, sent, now, next_run, caller,
                 issue_calls, loop_runs, reports, submissions>>
poll_vars == <<pc, thread_vars>>
stream_vars == <<msg, work_queue, stream_alive, conn, delivered, last_id, feed, handed>>
vars == <<connector_type, base_config, listen_vars, cycle_vars, poll_vars, stream_vars>>

(***************************************************************************)
(* Inbound broker messages and the entities the platform returns.          *)
(***************************************************************************)
WorkIds == 1..MaxWorkId

\* A message whose shape the schema rejects carries nothing the handler uses.
Malformed ==
  [valid |-> FALSE, work_id |-> 0, entity_id |-> "", applicant_id |-> "",
   file_fetch |-> <<>>, file_mime |-> ""]

EnrichmentMessages ==
  {Malformed}
  \cup {[valid |-> TRUE, work_id |-> w, entity_id |-> "observable--1",
         applicant_id |-> "user--1", file_fetch |-> <<>>, file_mime |-> ""] :
          w \in WorkIds}

\* file_fetch is the path of the file on the platform, one string per segment.
FileInputMessages ==
  {Malformed}
  \cup {[valid |-> TRUE, work_id |-> w, entity_id |-> "report--1",
         applicant_id |-> "user--1",
         file_fetch |-> <<"storage", "get", "import", "report.json">>,
         file_mime |-> "application/json"] :
          w \in WorkIds}

MarkingDefinitions ==
  {[definition_type |-> "TLP", definition |-> TLPLevels[i]] : i \in 1..Len(TLPLevels)}
  \cup {[definition_type |-> "TLP", definition |-> "TLP:CLEAR"],
        [definition_type |-> "statement", definition |-> "copyright"]}

MarkingLists ==
  UNION {[1..n -> MarkingDefinitions] : n \in 0..MaxMarkings}

\* stix_cyber_observable.read: raises, returns None, or returns the entity.
NoObservable == [result |-> "unread", objectMarking |-> <<>>]

ReadOutcomes ==
  {[result |-> "raised", objectMarking |-> <<>>],
   [result |-> "none", objectMarking |-> <<>>]}
  \cup {[result |-> "found", objectMarking |-> ms] : ms \in MarkingLists}

RECURSIVE tlp_definitions(_)
tlp_definitions(markings) ==
  IF markings = <<>> THEN <<>>
  ELSE (IF Head(markings).definition_type = "TLP"
          THEN <<Head(markings).definition>> ELSE <<>>)
       \o tlp_definitions(Tail(markings))

\* Variant: the markings of the entity are not read, every entity counts as
\* TLP:WHITE.
entity_tlps_ignoring_markings(obs) == <<"TLP:WHITE">>

\* tlps = ["TLP:CLEAR"] followed by the definition of every TLP marking.
entity_tlps(obs) == <<"TLP:CLEAR">> \o tlp_definitions(obs.objectMarking)

\* The first tlp of the list the gate refuses (0: it refuses none).
first_refused(tlps, max_tlp) ==
  IF \E i \in 1..Len(tlps) : ~check_max_tlp(tlps[i], max_tlp)
    THEN CHOOSE i \in 1..Len(tlps) :
           /\ ~check_max_tlp(tlps[i], max_tlp)
           /\ \A j \in 1..(i - 1) : check_max_tlp(tlps[j], max_tlp)
    ELSE 0

NotFoundError == "No object found with id"
TlpError == "Do not send any data, TLP of the observable is greater than MAX TLP"

\* The end of a cycle of a broker-driven connector.
EndCycle(m, obs, calls, st, lr, esc) ==
  /\ message' = m
  /\ observable' = obs
  /\ log' = calls
  /\ state' = st
  /\ last_run' = lr
  /\ escaped' = esc
  /\ pc' = "listening"

\* Variant: the message is refused only after the work was reported received.
DropMessageAfterReceived(m) ==
  EndCycle(m, NoObservable, <<Call("get_last_run"), to_received(m.work_id, TRUE)>>,
           state, last_run, FALSE)

\* except Exception: logger.error("Received non-... packet"); return
DropMessage(m) == EndCycle(m, NoObservable, <<>>, state, last_run, FALSE)

\* except Exception: set_state({"error": ...}), then the guarded error report.
ReportFailure(m, obs, calls, error) ==
  \E report_ok \in BOOLEAN :
    EndCycle(m, obs,
             calls \o <<[Call("set_state") EXCEPT !.msg = error],
                        to_processed(m.work_id, error, TRUE, report_ok)>>,
             set_state(state, [error |-> error]), last_run, FALSE)

\* The lookup and policy errors: set_state, an unguarded report, set_last_run.
ReportRejection(m, obs, calls, error) ==
  \E report_ok \in BOOLEAN :
    LET calls2 == calls \o <<[Call("set_state") EXCEPT !.msg = error],
                             to_processed(m.work_id, error, TRUE, report_ok)>>
        st == set_state(state, [error |-> error])
    IN IF report_ok
         THEN EndCycle(m, obs, calls2 \o <<Call("set_last_run")>>, st, now, FALSE)
         ELSE EndCycle(m, obs, calls2, st, last_run, TRUE)

\* for bundle in bundles: self._send_bundle(...); then set_last_run().
SubmitBundles(m, obs, calls, result) ==
  IF result.bundles_none
    THEN EndCycle(m, obs, calls, state, last_run, TRUE)
    ELSE \E n_ok \in 0..Len(result.bundles) :
           LET calls2 == calls \o Submissions(result.bundles, n_ok,
                                              [send_bundle(m.work_id, 0, TRUE)
                                                 EXCEPT !.applicant = m.applicant_id])
           IN IF n_ok < Len(result.bundles)
                THEN EndCycle(m, obs, calls2, state, last_run, TRUE)
                ELSE EndCycle(m, obs, calls2 \o <<Call("set_last_run")>>,
                              state, now, FALSE)

\* try: run(...); to_processed(work_id, run_msg)
RunAndReport(m, obs, calls) ==
  \E result \in RunOutcomes :
    LET calls2 == calls \o <<run_call(result)>>
    IN IF result.raised
         THEN ReportFailure(m, obs, calls2, RunError)
         ELSE \E report_ok \in BOOLEAN :
                LET calls3 == calls2 \o <<to_processed(m.work_id, result.run_msg,
                                                       FALSE, report_ok)>>
                IN IF report_ok
                     THEN SubmitBundles(m, obs, calls3, result)
                     ELSE ReportFailure(m, obs, calls3, ReportError)

\* Check TLP markings, do not submit higher than the max allowed.
TlpGate(m, obs, calls) ==
  LET tlps == entity_tlps(obs) IN
  IF check_max_tlp_raises(tlps[1], base_config.max_tlp)
    THEN EndCycle(m, obs, calls, state, last_run, TRUE)
    ELSE IF first_refused(tlps, base_config.max_tlp) # 0
           THEN ReportRejection(m, obs, calls, TlpError)
           ELSE RunAndReport(m, obs, calls)

\* The broker consumer hands the next message of the connector's queue to
\* process_broker_message; the log of calls starts anew with each message.
Connector_on_message ==
  /\ connector_type \in {"INTERNAL_ENRICHMENT", "INTERNAL_IMPORT_FILE"}
  /\ pc = "listening"
  /\ message' \in (IF connector_type = "INTERNAL_ENRICHMENT"
                     THEN EnrichmentMessages ELSE FileInputMessages)
  /\ observable' = NoObservable
  /\ log' = <<>>
  /\ escaped' = FALSE
  /\ pc' = "callback"
  /\ UNCHANGED <<connector_type, base_config, state, last_run, thread_vars, stream_vars,
                 tlp_checks>>

InternalEnrichmentConnector_process_broker_message ==
  /\ connector_type = "INTERNAL_ENRICHMENT"
  /\ pc = "callback"
  /\ LET m == message IN
       IF ~m.valid
         THEN DropMessage(m)
         ELSE \E received_ok \in BOOLEAN :
                LET calls == <<Call("get_last_run"), to_received(m.work_id, received_ok)>>
                IN IF ~received_ok
                     THEN EndCycle(m, NoObservable, calls, state, last_run, TRUE)
                     ELSE \E obs \in ReadOutcomes :
                            LET calls2 ==
                                  calls \o <<[Call("read") EXCEPT
                                                !.entity = m.entity_id,
                                                !.ok = (obs.result # "raised")]>>
                            IN CASE obs.result = "raised" ->
                                      EndCycle(m, obs, calls2, state, last_run, TRUE)
                                 [] obs.result = "none" ->
                                      ReportRejection(m, obs, calls2, NotFoundError)
                                 [] obs.result = "found" ->
                                      TlpGate(m, obs, calls2)
  /\ UNCHANGED <<connector_type, base_config, thread_vars, stream_vars, tlp_checks>>

\* os.path.basename of a path, and path.split("/")[-1]: its last segment.
basename(path) == IF path = <<>> THEN "" ELSE path[Len(path)]

upload_pending_file(file_name, bundle, entity_id, ok) ==
  [Call("upload_pending_file") EXCEPT !.file = file_name, !.bundle = bundle,
                                      !.entity = entity_id, !.ok = ok]

\* Variant: validate_before_import is not consulted, every bundle is submitted
\* directly.
SubmitFileBundlesDirectly(m, calls, result, file_name) ==
  IF result.bundles_none
    THEN EndCycle(m, NoObservable, calls, state, last_run, TRUE)
    ELSE \E n_ok \in 0..Len(result.bundles) :
           LET template == [send_bundle(m.work_id, 0, TRUE)
                              EXCEPT !.applicant = m.applicant_id]
               calls2 == calls \o Submissions(result.bundles, n_ok, template)
           IN IF n_ok < Len(result.bundles)
                THEN EndCycle(m, NoObservable, calls2, state, last_run, TRUE)
                ELSE EndCycle(m, NoObservable, calls2 \o <<Call("set_last_run")>>,
                              state, now, FALSE)

\* for bundle in bundles: the pending-validation path or the direct path.
SubmitFileBundles(m, calls, result, file_name) ==
  IF result.bundles_none
    THEN EndCycle(m, NoObservable, calls, state, last_run, TRUE)
    ELSE \E n_ok \in 0..Len(result.bundles) :
           LET template == IF base_config.validate_before_import
                             THEN upload_pending_file(file_name, 0, m.entity_id, TRUE)
                             ELSE [send_bundle(m.work_id, 0, TRUE)
                                     EXCEPT !.applicant = m.applicant_id]
               calls2 == calls \o Submissions(result.bundles, n_ok, template)
           IN IF n_ok < Len(result.bundles)
                THEN EndCycle(m, NoObservable, calls2, state, last_run, TRUE)
                ELSE EndCycle(m, NoObservable, calls2 \o <<Call("set_last_run")>>,
                              state, now, FALSE)

\* try: run(...); to_processed(work_id, run_msg); os.remove(file_path)
RunReportAndRemove(m, calls, file_path) ==
  \E result \in RunOutcomes :
    LET calls2 == calls \o <<[run_call(result) EXCEPT !.file = file_path]>>
    IN IF result.raised
         THEN ReportFailure(m, NoObservable, calls2, RunError)
         ELSE \E report_ok \in BOOLEAN :
                LET calls3 == calls2 \o <<to_processed(m.work_id, result.run_msg,
                                                       FALSE, report_ok)>>
                IN IF ~report_ok
                     THEN ReportFailure(m, NoObservable, calls3, ReportError)
                     ELSE \E removed \in BOOLEAN :
                            LET calls4 == calls3 \o <<[Call("os_remove") EXCEPT
                                                         !.file = file_path,
                                                         !.ok = removed]>>
                            IN IF removed
                                 THEN SubmitFileBundles(m, calls4, result,
                                                        basename(<<file_path>>))
                                 ELSE ReportFailure(m, NoObservable, calls4,
                                                    RemoveError)

InternalFileInputConnector_process_broker_message ==
  /\ connector_type = "INTERNAL_IMPORT_FILE"
  /\ pc = "callback"
  /\ LET m == message IN
       IF ~m.valid
         THEN DropMessage(m)
         ELSE \E received_ok \in BOOLEAN :
                LET calls == <<Call("get_last_run"), to_received(m.work_id, received_ok)>>
                IN IF ~received_ok
                     THEN EndCycle(m, NoObservable, calls, state, last_run, TRUE)
                     ELSE \E fetched \in BOOLEAN :
                            LET file_path == basename(m.file_fetch)
                                calls2 == calls \o <<[Call("fetch_opencti_file") EXCEPT
                                                        !.file = file_path,
                                                        !.ok = fetched]>>
                            IN IF ~fetched
                                 THEN EndCycle(m, NoObservable, calls2, state,
                                               last_run, TRUE)
                                 ELSE RunReportAndRemove(m, calls2, file_path)
  /\ UNCHANGED <<connector_type, base_config, thread_vars, stream_vars, tlp_checks>>

(***************************************************************************)
(* ExternalInputConnector: start(), the scheduler loop and issue_call.     *)
(* pc follows the main thread; _stop runs on another thread.               *)
(***************************************************************************)
\* "Last_run stored, next run in: " + str(round(interval / 60 / 60 / 24, 2)) + " days"
LastRunMessage == "Last_run stored, next run in: N days"

\* An exception leaves issue_call: it unwinds run_pending and start().
Raise(calls) ==
  /\ log' = calls
  /\ escaped' = TRUE
  /\ pc' = "crashed"
  /\ UNCHANGED next_run

\* Variant: the failure of the last call, the error report, is not swallowed.
ReturnUnlessLastCallFailed(calls, finished) ==
  IF calls[Len(calls)].ok
    THEN /\ log' = calls
         /\ escaped' = FALSE
         /\ IF caller = "start"
              THEN pc' = "loop" /\ UNCHANGED next_run
              ELSE pc' = "sleep" /\ next_run' = finished + base_config.interval
    ELSE Raise(calls)

\* issue_call returns: to start() before the loop, or to the job of the scheduler,
\* which then plans its next run one interval after the job has finished.
Return(calls, finished) ==
  /\ log' = calls
  /\ escaped' = FALSE
  /\ IF caller = "start"
       THEN pc' = "loop" /\ UNCHANGED next_run
       ELSE pc' = "sleep" /\ next_run' = finished + base_config.interval

\* start(): "Call it for the first time directly".
ExternalInputConnector_start ==
  /\ connector_type = "EXTERNAL_IMPORT"
  /\ pc = "start"
  /\ pc' = "issue_call"
  /\ caller' = "start"
  /\ UNCHANGED <<connector_type, base_config, listen_vars, stream_vars, cycle_vars, stop_event,
                 work_id, run_result, sent, now, next_run, issue_calls, loop_runs,
                 reports, submissions>>

\* get_last_run(); work_id = initiate_work(...)
IssueCall_initiate_work ==
  /\ connector_type = "EXTERNAL_IMPORT"
  /\ pc = "issue_call"
  /\ issue_calls' = issue_calls + 1
  /\ run_result' = NoRun
  /\ sent' = 0
  /\ \E initiated \in BOOLEAN :
       LET calls == <<Call("get_last_run"),
                      [Call("initiate_work") EXCEPT !.work = issue_calls + 1,
                                                    !.ok = initiated]>>
       IN IF initiated
            THEN /\ work_id' = issue_calls + 1
                 /\ log' = calls
                 /\ escaped' = FALSE
                 /\ pc' = "run"
                 /\ UNCHANGED next_run
            ELSE /\ work_id' = 0
                 /\ Raise(calls)
  /\ UNCHANGED <<connector_type, base_config, listen_vars, stream_vars, state, last_run, stop_event,
                 now, caller, loop_runs, reports, submissions>>

\* try: run(...) except: set_state({"error": ...}); guarded to_processed; return
IssueCall_run ==
  /\ connector_type = "EXTERNAL_IMPORT"
  /\ pc = "run"
  /\ \E result \in RunOutcomes, run_time \in 0..MaxRunTime :
       /\ now + run_time <= MaxTime
       /\ now' = now + run_time
       /\ run_result' = result
       /\ IF result.raised
            THEN \E report_ok \in BOOLEAN :
                   /\ state' = set_state(state, [error |-> RunError])
                   /\ reports' = reports + 1
                   /\ Return(log \o <<run_call(result),
                                      [Call("set_state") EXCEPT !.msg = RunError],
                                      to_processed(work_id, RunError, TRUE, report_ok)>>,
                             now + run_time)
            ELSE /\ log' = log \o <<run_call(result)>>
                 /\ pc' = "report"
                 /\ UNCHANGED <<state, reports, escaped, next_run>>
  /\ UNCHANGED <<connector_type, base_config, listen_vars, stream_vars, last_run, stop_event, work_id,
                 sent, caller, issue_calls, loop_runs, submissions>>

\* Variant: a report that raises is passed over and the bundles are submitted.
IssueCall_to_processed_failure_passed_over ==
  /\ connector_type = "EXTERNAL_IMPORT"
  /\ pc = "report"
  /\ reports' = reports + 1
  /\ \E report_ok \in BOOLEAN :
       /\ log' = log \o <<to_processed(work_id, LastRunMessage, FALSE, report_ok)>>
       /\ pc' = "send"
       /\ UNCHANGED <<escaped, next_run>>
  /\ UNCHANGED <<connector_type, base_config, listen_vars, stream_vars, state, last_run, stop_event,
                 work_id, run_result, sent, now, caller, issue_calls, loop_runs,
                 submissions>>

\* self.api.work.to_processed(work_id, message)
IssueCall_to_processed ==
  /\ connector_type = "EXTERNAL_IMPORT"
  /\ pc = "report"
  /\ reports' = reports + 1
  /\ \E report_ok \in BOOLEAN :
       LET calls == log \o <<to_processed(work_id, LastRunMessage, FALSE, report_ok)>>
       IN IF report_ok
            THEN /\ log' = calls
                 /\ pc' = "send"
                 /\ UNCHANGED <<escaped, next_run>>
            ELSE Raise(calls)
  /\ UNCHANGED <<connector_type, base_config, listen_vars, stream_vars, state, last_run, stop_event,
                 work_id, run_result, sent, now, caller, issue_calls, loop_runs,
                 submissions>>

\* Variant: the submission loop looks at the stop signal and ends when it is raised.
IssueCall_send_bundle_until_stopped ==
  /\ connector_type = "EXTERNAL_IMPORT"
  /\ pc = "send"
  /\ IF stop_event
       THEN /\ Return(log, now)
            /\ UNCHANGED <<sent, submissions>>
       ELSE IF run_result.bundles_none
       THEN /\ Raise(log)
            /\ UNCHANGED <<sent, submissions>>
       ELSE /\ sent < Len(run_result.bundles)
            /\ sent' = sent + 1
            /\ submissions' = submissions + 1
            /\ \E send_ok \in BOOLEAN :
                 LET calls == log \o <<send_bundle(work_id, run_result.bundles[sent + 1],
                                                   send_ok)>>
                 IN IF send_ok
                      THEN /\ log' = calls
                           /\ UNCHANGED <<pc, escaped, next_run>>
                      ELSE Raise(calls)
  /\ UNCHANGED <<connector_type, base_config, listen_vars, stream_vars, state, last_run, stop_event,
                 work_id, run_result, now, caller, issue_calls, loop_runs, reports>>

\* for bundle in bundles: self._send_bundle(bundle, work_id, None, scope)
IssueCall_send_bundle ==
  /\ connector_type = "EXTERNAL_IMPORT"
  /\ pc = "send"
  /\ IF run_result.bundles_none
       THEN /\ Raise(log)
            /\ UNCHANGED <<sent, submissions>>
       ELSE /\ sent < Len(run_result.bundles)
            /\ sent' = sent + 1
            /\ submissions' = submissions + 1
            /\ \E send_ok \in BOOLEAN :
                 LET calls == log \o <<send_bundle(work_id, run_result.bundles[sent + 1],
                                                   send_ok)>>
                 IN IF send_ok
                      THEN /\ log' = calls
                           /\ UNCHANGED <<pc, escaped, next_run>>
                      ELSE Raise(calls)
  /\ UNCHANGED <<connector_type, base_config, listen_vars, stream_vars, state, last_run, stop_event,
                 work_id, run_result, now, caller, issue_calls, loop_runs, reports>>

\* Variant: the last-run marker is stored right after the report, before the
\* bundles, and the cycle ends there.
IssueCall_set_last_run_before_bundles ==
  /\ connector_type = "EXTERNAL_IMPORT"
  /\ pc = "send"
  /\ ~run_result.bundles_none
  /\ sent = 0
  /\ last_run' = now
  /\ Return(log \o <<Call("set_last_run")>>, now)
  /\ UNCHANGED <<connector_type, base_config, listen_vars, stream_vars, state, stop_event, work_id,
                 run_result, sent, now, caller, issue_calls, loop_runs, reports,
                 submissions>>

\* self.set_last_run(), after the last bundle
IssueCall_set_last_run ==
  /\ connector_type = "EXTERNAL_IMPORT"
  /\ pc = "send"
  /\ ~run_result.bundles_none
  /\ sent = Len(run_result.bundles)
  /\ last_run' = now
  /\ Return(log \o <<Call("set_last_run")>>, now)
  /\ UNCHANGED <<connector_type, base_config, listen_vars, stream_vars, state, stop_event, work_id,
                 run_result, sent, now, caller, issue_calls, loop_runs, reports,
                 submissions>>

\* while not self.stop_event.is_set():
ExternalInputConnector_loop ==
  /\ connector_type = "EXTERNAL_IMPORT"
  /\ pc = "loop"
  /\ IF stop_event
       THEN pc' = "returned" /\ UNCHANGED loop_runs
       ELSE pc' = "run_pending" /\ loop_runs' = loop_runs + 1
  /\ UNCHANGED <<connector_type, base_config, listen_vars, stream_vars, cycle_vars, stop_event,
                 work_id, run_result, sent, now, next_run, caller, issue_calls,
                 reports, submissions>>

\* schedule.run_pending(): the job runs when it is due.
schedule_run_pending ==
  /\ connector_type = "EXTERNAL_IMPORT"
  /\ pc = "run_pending"
  /\ IF now >= next_run
       THEN pc' = "issue_call" /\ caller' = "schedule"
       ELSE pc' = "sleep" /\ UNCHANGED caller
  /\ UNCHANGED <<connector_type, base_config, listen_vars, stream_vars, cycle_vars, stop_event,
                 work_id, run_result, sent, now, next_run, issue_calls, loop_runs,
                 reports, submissions>>

\* time.sleep(1)
time_sleep ==
  /\ connector_type = "EXTERNAL_IMPORT"
  /\ pc = "sleep"
  /\ now < MaxTime
  /\ now' = now + 1
  /\ pc' = "loop"
  /\ UNCHANGED <<connector_type, base_config, listen_vars, stream_vars, cycle_vars, stop_event,
                 work_id, run_result, sent, next_run, caller, issue_calls, loop_runs,
                 reports, submissions>>

\* _stop(), called from another thread.
ExternalInputConnector_stop ==
  /\ connector_type = "EXTERNAL_IMPORT"
  /\ ~stop_event
  /\ pc \notin {"returned", "crashed"}
  /\ stop_event' = TRUE
  /\ UNCHANGED <<connector_type, base_config, listen_vars, stream_vars, cycle_vars, pc, work_id,
                 run_result, sent, now, next_run, caller, issue_calls, loop_runs,
                 reports, submissions>>

(***************************************************************************)
(* StreamInputConnector: start(), issue_call with the event loop, _stop,   *)
(* and the StreamAlive thread on the other end of the liveness queue.      *)
(*                                                                         *)
(* A cursor token "<timestamp>-<sequence>" is the pair <<timestamp,        *)
(* sequence>>, the empty string is <<>>.  An ISO date is the pair of its   *)
(* date-time and its offset suffix.                                        *)
(***************************************************************************)
QueueMaxSize == 1

NoId == <<>>

CursorLess(a, b) == a[1] < b[1] \/ (a[1] = b[1] /\ a[2] < b[2])

EventIds == {<<t, 0>> : t \in 1..MaxStamp}

EventTypes == {"heartbeat", "connected", "create"}

StreamEvents == [id : EventIds \cup {NoId}, event : EventTypes]

NoEvent == [id |-> NoId, event |-> ""]

\* run(config, msg) -> (work_id, bundles): either may be None; work 0 is None.
StreamRunOutcomes ==
  {[raised |-> TRUE, work |-> 0, bundles_none |-> FALSE, bundles |-> <<>>]}
  \cup {[raised |-> FALSE, work |-> w, bundles_none |-> TRUE, bundles |-> <<>>] :
          w \in 0..1}
  \cup {[raised |-> FALSE, work |-> w, bundles_none |-> FALSE, bundles |-> b] :
          w \in 0..1, b \in BundleLists}

\* date_now(): the current UTC date-time with the offset "+00:00".
date_now(t) == <<ToString(t), "+00:00">>

\* s.replace("+00:00", "Z") on an ISO date.
replace_utc_offset(date) == IF date[2] = "+00:00" THEN <<date[1], "Z">> ELSE date

\* str(b).lower() of a boolean.
str_bool(b) == IF b THEN "True" ELSE "False"

lower(s) == CASE s = "True" -> "true" [] s = "False" -> "false" [] OTHER -> s

\* Variant: the legacy key connectorLastEventId is not consulted.
start_from_of_without_legacy_key(persisted, config) ==
  LET read == get(persisted, "start_from", <<>>)
  IN IF read = <<>>
       THEN IF config.live_stream_start_timestamp # 0
              THEN <<config.live_stream_start_timestamp, 0>>
              ELSE <<0, 0>>
       ELSE read

\* start_from: persisted, else the legacy key, else "<start timestamp>-0", else "0-0".
start_from_of(persisted, config) ==
  LET read == get(persisted, "start_from", get(persisted, "connectorLastEventId", <<>>))
  IN IF read = <<>>
       THEN IF config.live_stream_start_timestamp # 0
              THEN <<config.live_stream_start_timestamp, 0>>
              ELSE <<0, 0>>
       ELSE read

\* recover_until: persisted, else the legacy key, else the configured date, else now.
recover_until_of(persisted, config, t) ==
  LET read == get(persisted, "recover_until", get(persisted, "connectorStartTime", <<>>))
  IN IF read = <<>>
       THEN IF config.live_stream_recover_iso_date # <<>>
              THEN config.live_stream_recover_iso_date
              ELSE replace_utc_offset(date_now(t))
       ELSE read

\* The headers of the SSEClient request; a string is the list of its parts.
stream_headers(config) ==
  [authorization |-> <<"Bearer ", "$", config.token>>,
   listen_delete |-> lower(str_bool(config.live_stream_listen_delete)),
   no_dependencies |-> lower(str_bool(config.live_stream_no_dependencies)),
   with_inferences |-> lower(str_bool(config.live_stream_with_inferences))]

NoConnection ==
  [open |-> FALSE, from |-> <<>>, recover |-> <<>>,
   headers |-> [authorization |-> <<>>, listen_delete |-> "", no_dependencies |-> "",
                with_inferences |-> ""]]

\* The parts of the state the stream connector leaves alone in one step.
StreamFrame ==
  UNCHANGED <<connector_type, base_config, listen_vars, work_id, now, next_run, caller,
              issue_calls, loop_runs, reports, submissions>>

\* start(): "Call it for the first time directly".
StreamInputConnector_start ==
  /\ connector_type = "STREAM"
  /\ pc = "start"
  /\ pc' = "issue_call"
  /\ UNCHANGED <<cycle_vars, stop_event, run_result, sent, stream_vars>>
  /\ StreamFrame

\* issue_call up to the SSEClient: the cursor is chosen and persisted, the queue
\* and the StreamAlive thread are created, the connection is opened.
StreamIssueCall_connect ==
  /\ connector_type = "STREAM"
  /\ pc = "issue_call"
  /\ LET start_from == start_from_of(state, base_config)
         recover_until == recover_until_of(state, base_config, now)
     IN /\ state' = set_state(set_state(state, [start_from |-> start_from]),
                              [recover_until |-> recover_until])
        /\ work_queue' = <<>>
        /\ stream_alive' = "running"
        /\ \E connected \in BOOLEAN :
             IF connected
               THEN /\ conn' = [open |-> TRUE, from |-> start_from,
                                recover |-> recover_until,
                                headers |-> stream_headers(base_config)]
                    /\ last_id' = start_from
                    /\ pc' = "wait"
                    /\ escaped' = FALSE
               ELSE /\ conn' = NoConnection
                    /\ UNCHANGED last_id
                    /\ pc' = "crashed"
                    /\ escaped' = TRUE
  /\ log' = <<Call("get_last_run"), Call("get_state"), Call("set_state"),
              Call("set_state")>>
  /\ UNCHANGED <<last_run, stop_event, run_result, sent, msg, delivered, feed, handed>>
  /\ StreamFrame

\* The server pushes the next event of the feed.  An id it assigns is above the
\* cursor the connection was opened from and above every id it has sent on this
\* connection; on a later connection it sends the events of the feed again, in
\* order and as they were.
StreamIssueCall_next_event ==
  /\ connector_type = "STREAM"
  /\ pc = "wait"
  /\ delivered < MaxEvents
  /\ \E e \in StreamEvents :
       /\ e.id # NoId =>
            /\ CursorLess(last_id, e.id)
            /\ LET ahead == {f \in feed : CursorLess(last_id, f.id)}
               IN ahead # {} => /\ e \in ahead
                                /\ \A f \in ahead : ~CursorLess(f.id, e.id)
       /\ msg' = e
       /\ last_id' = IF e.id # NoId THEN e.id ELSE last_id
       /\ feed' = IF e.id # NoId THEN feed \cup {e} ELSE feed
  /\ delivered' = delivered + 1
  /\ pc' = "stop_check"
  /\ log' = <<>>
  /\ run_result' = NoRun
  /\ sent' = 0
  /\ UNCHANGED <<escaped, state, last_run, stop_event, work_queue, stream_alive, conn,
                 handed>>
  /\ StreamFrame

\* The connection ends: the iterator is exhausted, or it raises.
StreamIssueCall_connection_closed ==
  /\ connector_type = "STREAM"
  /\ pc = "wait"
  /\ conn' = [conn EXCEPT !.open = FALSE]
  /\ \E raised \in BOOLEAN :
       /\ escaped' = raised
       /\ pc' = IF raised THEN "crashed" ELSE "idle"
  /\ UNCHANGED <<log, state, last_run, stop_event, run_result, sent, msg, work_queue,
                 stream_alive, delivered, last_id, feed, handed>>
  /\ StreamFrame

\* Variant: the loop body does not look at the stop signal.
StreamIssueCall_stop_check_ignoring_stop ==
  /\ connector_type = "STREAM"
  /\ pc = "stop_check"
  /\ pc' = IF msg.id = NoId THEN "wait" ELSE "put"
  /\ UNCHANGED <<cycle_vars, stop_event, run_result, sent, stream_vars>>
  /\ StreamFrame

\* if self.stop_event.is_set(): break      if msg.id is not None:
StreamIssueCall_stop_check ==
  /\ connector_type = "STREAM"
  /\ pc = "stop_check"
  /\ pc' = IF stop_event THEN "idle"
           ELSE IF msg.id = NoId THEN "wait"
           ELSE "put"
  /\ UNCHANGED <<cycle_vars, stop_event, run_result, sent, stream_vars>>
  /\ StreamFrame

\* work_queue.put(msg.event, block=False), queue.Full is passed over.
queue_put(q, item) == IF Len(q) >= QueueMaxSize THEN q ELSE Append(q, item)

\* Variant: work_queue.put(msg.event) with block=True waits for a free slot.
StreamIssueCall_put_blocking ==
  /\ connector_type = "STREAM"
  /\ pc = "put"
  /\ Len(work_queue) < QueueMaxSize
  /\ work_queue' = Append(work_queue, msg.event)
  /\ log' = log \o <<[Call("put") EXCEPT !.msg = msg.event]>>
  /\ pc' = IF msg.event # "heartbeat" /\ msg.event # "connected" THEN "run" ELSE "persist"
  /\ UNCHANGED <<escaped, state, last_run, stop_event, run_result, sent, msg,
                 stream_alive, conn, delivered, last_id, feed, handed>>
  /\ StreamFrame

\* Variant: the cursor is persisted as soon as the event is pushed, before the run.
StreamIssueCall_put_persisting_first ==
  /\ connector_type = "STREAM"
  /\ pc = "put"
  /\ work_queue' = queue_put(work_queue, msg.event)
  /\ state' = set_state(state, [start_from |-> msg.id])
  /\ log' = log \o <<[Call("put") EXCEPT !.msg = msg.event,
                                         !.ok = (Len(work_queue) < QueueMaxSize)],
                      Call("set_state")>>
  /\ pc' = IF msg.event # "heartbeat" /\ msg.event # "connected" THEN "run" ELSE "persist"
  /\ UNCHANGED <<escaped, last_run, stop_event, run_result, sent, msg,
                 stream_alive, conn, delivered, last_id, feed, handed>>
  /\ StreamFrame

StreamIssueCall_put ==
  /\ connector_type = "STREAM"
  /\ pc = "put"
  /\ work_queue' = queue_put(work_queue, msg.event)
  /\ log' = log \o <<[Call("put") EXCEPT !.msg = msg.event,
                                         !.ok = (Len(work_queue) < QueueMaxSize)]>>
  /\ pc' = IF msg.event # "heartbeat" /\ msg.event # "connected" THEN "run" ELSE "persist"
  /\ UNCHANGED <<escaped, state, last_run, stop_event, run_result, sent, msg,
                 stream_alive, conn, delivered, last_id, feed, handed>>
  /\ StreamFrame

\* Variant: after the error is persisted the loop goes on with the next event.
StreamIssueCall_run_continue_on_error ==
  /\ connector_type = "STREAM"
  /\ pc = "run"
  /\ \E result \in StreamRunOutcomes :
       /\ run_result' = result
       /\ handed' = handed \cup {msg.id}
       /\ IF result.raised
            THEN /\ state' = set_state(state, [error |-> RunError])
                 /\ log' = log \o <<Call("run"), [Call("set_state") EXCEPT !.msg = RunError]>>
                 /\ pc' = "wait"
                 /\ UNCHANGED escaped
            ELSE /\ log' = log \o <<Call("run")>>
                 /\ UNCHANGED state
                 /\ IF result.work # 0 /\ result.bundles_none
                      THEN pc' = "crashed" /\ escaped' = TRUE
                      ELSE /\ pc' = IF result.work # 0 /\ Len(result.bundles) > 0
                                      THEN "send" ELSE "persist"
                           /\ UNCHANGED escaped
  /\ UNCHANGED <<last_run, stop_event, sent, msg, work_queue, stream_alive, conn, delivered,
                 last_id, feed>>
  /\ StreamFrame

\* try: work_id, bundles = self.run(...) except: set_state({"error": ...}); return
\* then: if work_id is not None and len(bundles) > 0:
StreamIssueCall_run ==
  /\ connector_type = "STREAM"
  /\ pc = "run"
  /\ \E result \in StreamRunOutcomes :
       /\ run_result' = result
       /\ handed' = handed \cup {msg.id}
       /\ IF result.raised
            THEN /\ state' = set_state(state, [error |-> RunError])
                 /\ log' = log \o <<Call("run"), [Call("set_state") EXCEPT !.msg = RunError]>>
                 /\ pc' = "idle"
                 /\ UNCHANGED escaped
            ELSE /\ log' = log \o <<Call("run")>>
                 /\ UNCHANGED state
                 /\ IF result.work # 0 /\ result.bundles_none
                      THEN pc' = "crashed" /\ escaped' = TRUE
                      ELSE /\ pc' = IF result.work # 0 /\ Len(result.bundles) > 0
                                      THEN "send" ELSE "persist"
                           /\ UNCHANGED escaped
  /\ UNCHANGED <<last_run, stop_event, sent, msg, work_queue, stream_alive, conn, delivered,
                 last_id, feed>>
  /\ StreamFrame

\* for bundle in bundles: self._send_bundle(bundle, work_id, None, scope)
StreamIssueCall_send_bundle ==
  /\ connector_type = "STREAM"
  /\ pc = "send"
  /\ sent < Len(run_result.bundles)
  /\ sent' = sent + 1
  /\ \E send_ok \in BOOLEAN :
       /\ log' = log \o <<send_bundle(run_result.work, run_result.bundles[sent + 1],
                                      send_ok)>>
       /\ escaped' = ~send_ok
       /\ pc' = IF ~send_ok THEN "crashed"
                ELSE IF sent + 1 = Len(run_result.bundles) THEN "persist"
                ELSE "send"
  /\ UNCHANGED <<state, last_run, stop_event, run_result, stream_vars>>
  /\ StreamFrame

\* Variant: the cursor is persisted only for an event whose run returned a work id
\* and bundles.
StreamIssueCall_set_state_if_bundles ==
  /\ connector_type = "STREAM"
  /\ pc = "persist"
  /\ state' = IF /\ msg.event # "heartbeat" /\ msg.event # "connected"
                   /\ run_result.work # 0 /\ Len(run_result.bundles) > 0
                THEN set_state(state, [start_from |-> msg.id])
                ELSE state
  /\ feed' = {f \in feed : CursorLess(state'.start_from, f.id)}
  /\ handed' = {id \in handed : CursorLess(state'.start_from, id)}
  /\ last_run' = now
  /\ log' = log \o <<Call("set_state"), Call("set_last_run")>>
  /\ pc' = "wait"
  /\ UNCHANGED <<escaped, stop_event, run_result, sent, msg, work_queue, stream_alive, conn,
                 delivered, last_id>>
  /\ StreamFrame

\* Variant: the cursor is written for heartbeat and connected events only.
StreamIssueCall_set_state_for_control_events ==
  /\ connector_type = "STREAM"
  /\ pc = "persist"
  /\ state' = IF msg.event = "heartbeat" \/ msg.event = "connected"
                THEN set_state(state, [start_from |-> msg.id])
                ELSE state
  /\ feed' = {f \in feed : CursorLess(state'.start_from, f.id)}
  /\ handed' = {id \in handed : CursorLess(state'.start_from, id)}
  /\ last_run' = now
  /\ log' = log \o <<Call("set_state"), Call("set_last_run")>>
  /\ pc' = "wait"
  /\ UNCHANGED <<escaped, stop_event, run_result, sent, msg, work_queue, stream_alive, conn,
                 delivered, last_id>>
  /\ StreamFrame

\* self.set_state({"start_from": str(msg.id)}); self.set_last_run()
StreamIssueCall_set_state ==
  /\ connector_type = "STREAM"
  /\ pc = "persist"
  /\ state' = set_state(state, [start_from |-> msg.id])
  /\ feed' = {f \in feed : CursorLess(state'.start_from, f.id)}
  /\ handed' = {id \in handed : CursorLess(state'.start_from, id)}
  /\ last_run' = now
  /\ log' = log \o <<Call("set_state"), Call("set_last_run")>>
  /\ pc' = "wait"
  /\ UNCHANGED <<escaped, stop_event, run_result, sent, msg, work_queue, stream_alive, conn,
                 delivered, last_id>>
  /\ StreamFrame

\* start() after issue_call has returned: while not self.stop_event.is_set():
StreamInputConnector_loop ==
  /\ connector_type = "STREAM"
  /\ pc = "idle"
  /\ pc' = IF stop_event THEN "returned" ELSE "idle_sleep"
  /\ UNCHANGED <<cycle_vars, stop_event, run_result, sent, stream_vars>>
  /\ StreamFrame

\* schedule.run_pending() with no job planned; time.sleep(1)
StreamInputConnector_sleep ==
  /\ connector_type = "STREAM"
  /\ pc = "idle_sleep"
  /\ pc' = "idle"
  /\ UNCHANGED <<cycle_vars, stop_event, run_result, sent, stream_vars>>
  /\ StreamFrame

\* _stop(), called from another thread.
StreamInputConnector_stop ==
  /\ connector_type = "STREAM"
  /\ ~stop_event
  /\ pc \notin {"returned", "crashed"}
  /\ stop_event' = TRUE
  /\ stream_alive' = IF stream_alive = "none" THEN "none" ELSE "stopped"
  /\ UNCHANGED <<cycle_vars, pc, run_result, sent, msg, work_queue, conn, delivered,
                 last_id, feed, handed>>
  /\ StreamFrame

\* The connector process has ended somewhere in the event loop (killed, or left by
\* an exception) and its host starts it again: __init__ and start() run on the
\* persisted state, the server still holds the feed.
StreamInputConnector_restart ==
  /\ connector_type = "STREAM"
  /\ pc \in {"wait", "stop_check", "put", "run", "send", "persist", "crashed", "idle"}
  /\ pc' = "start"
  /\ stop_event' = FALSE
  /\ stream_alive' = "none"
  /\ work_queue' = <<>>
  /\ conn' = NoConnection
  /\ msg' = NoEvent
  /\ run_result' = NoRun
  /\ sent' = 0
  /\ log' = <<>>
  /\ escaped' = FALSE
  /\ UNCHANGED <<state, last_run, delivered, last_id, feed, handed>>
  /\ StreamFrame

\* The StreamAlive thread takes the event type off the liveness queue.
StreamAlive_run ==
  /\ connector_type = "STREAM"
  /\ stream_alive = "running"
  /\ work_queue # <<>>
  /\ work_queue' = Tail(work_queue)
  /\ UNCHANGED <<cycle_vars, pc, stop_event, run_result, sent, msg, stream_alive, conn,
                 delivered, last_id, feed, handed>>
  /\ StreamFrame

(***************************************************************************)
(* check_max_tlp applied to arbitrary arguments: the result of each        *)
(* evaluation is kept, the newest last, the two latest only.               *)
(***************************************************************************)
TlpArguments == KnownTLP \cup {"TLP:CLEAR"}

evaluate_check_max_tlp(tlp, max_tlp) ==
  [tlp |-> tlp, max_tlp |-> max_tlp,
   raised |-> check_max_tlp_raises(tlp, max_tlp),
   result |-> IF check_max_tlp_raises(tlp, max_tlp) THEN FALSE
              ELSE check_max_tlp(tlp, max_tlp)]

CheckMaxTlp ==
  /\ connector_type = "NONE"
  /\ \E tlp \in TlpArguments, max_tlp \in TlpArguments :
       tlp_checks' = (IF Len(tlp_checks) = 2 THEN Tail(tlp_checks) ELSE tlp_checks)
                     \o <<evaluate_check_max_tlp(tlp, max_tlp)>>
  /\ UNCHANGED <<connector_type, base_config, message, observable, cycle_vars,
                 poll_vars, stream_vars>>

(***************************************************************************)
(* Configurations and initial states.                                      *)
(***************************************************************************)
DefaultConfig ==
  [interval |-> 2, run_and_terminate |-> FALSE, max_tlp |-> "TLP:AMBER",
   validate_before_import |-> FALSE, token |-> "secret",
   live_stream_start_timestamp |-> 0, live_stream_recover_iso_date |-> <<>>,
   live_stream_listen_delete |-> TRUE, live_stream_no_dependencies |-> FALSE,
   live_stream_with_inferences |-> FALSE]

Intervals == {1, 2}

\* A ceiling the table of check_max_tlp has no key for is a configuration too.
MaxTlpSettings == KnownTLP \cup {"TLP:CLEAR"}

IdleThread ==
  /\ pc = "listening"
  /\ stop_event = FALSE
  /\ work_id = 0
  /\ run_result = NoRun
  /\ sent = 0
  /\ now = 0
  /\ next_run = 0
  /\ caller = ""
  /\ issue_calls = 0
  /\ loop_runs = 0
  /\ reports = 0
  /\ submissions = 0

NoStream ==
  /\ msg = NoEvent
  /\ work_queue = <<>>
  /\ stream_alive = "none"
  /\ conn = NoConnection
  /\ delivered = 0
  /\ last_id = <<>>
  /\ feed = {}
  /\ handed = {}

FreshCycle ==
  /\ tlp_checks = <<>>
  /\ log = <<>>
  /\ escaped = FALSE
  /\ last_run = 0
  /\ message = Malformed
  /\ observable = NoObservable

\* Variant: __init__ leaves the stop signal clear.
init_stop_event_left_clear(config) == FALSE

\* __init__: if self.base_config.run_and_terminate: self.stop_event.set()
init_stop_event(config) == config.run_and_terminate

\* ExternalInputConnector.__init__: the job is planned one interval from now and
\* run_and_terminate raises the stop signal.
InitExternal ==
  /\ connector_type = "EXTERNAL_IMPORT"
  /\ \E i \in Intervals, once \in BOOLEAN :
       /\ base_config = [DefaultConfig EXCEPT !.interval = i, !.run_and_terminate = once]
       /\ stop_event = init_stop_event(base_config)
       /\ next_run = i
  /\ state \in {EmptyState, [error |-> RunError]}
  /\ FreshCycle
  /\ NoStream
  /\ pc = "start"
  /\ work_id = 0
  /\ run_result = NoRun
  /\ sent = 0
  /\ now = 0
  /\ caller = ""
  /\ issue_calls = 0
  /\ loop_runs = 0
  /\ reports = 0
  /\ submissions = 0

InitEnrichment ==
  /\ connector_type = "INTERNAL_ENRICHMENT"
  /\ \E ceiling \in MaxTlpSettings :
       base_config = [DefaultConfig EXCEPT !.max_tlp = ceiling]
  /\ state = EmptyState
  /\ FreshCycle
  /\ NoStream
  /\ IdleThread

InitFileInput ==
  /\ connector_type = "INTERNAL_IMPORT_FILE"
  /\ \E validate \in BOOLEAN :
       base_config = [DefaultConfig EXCEPT !.validate_before_import = validate]
  /\ state = EmptyState
  /\ FreshCycle
  /\ NoStream
  /\ IdleThread

\* What the state store can hold when a stream connector starts: nothing, the
\* keys this connector writes, the keys of the connector it replaced.
PersistedCursors ==
  {EmptyState, [start_from |-> <<2, 0>>], [connectorLastEventId |-> <<1, 0>>],
   [start_from |-> <<2, 0>>, connectorLastEventId |-> <<1, 0>>]}

PersistedDeadlines ==
  {EmptyState, [recover_until |-> <<"2024-02-02T00:00:00", "Z">>],
   [connectorStartTime |-> <<"2023-01-01T00:00:00", "Z">>],
   [recover_until |-> <<"2024-02-02T00:00:00", "Z">>,
    connectorStartTime |-> <<"2023-01-01T00:00:00", "Z">>]}

StreamConfigs ==
  {[DefaultConfig EXCEPT !.live_stream_start_timestamp = ts,
                         !.live_stream_recover_iso_date = date,
                         !.live_stream_listen_delete = ld,
                         !.live_stream_no_dependencies = nd,
                         !.live_stream_with_inferences = wi] :
     ts \in {0, 3}, date \in {<<>>, <<"2022-03-03T00:00:00", "Z">>},
     ld \in BOOLEAN, nd \in BOOLEAN, wi \in BOOLEAN}

StreamThread ==
  /\ pc = "start"
  /\ stop_event = FALSE
  /\ work_id = 0
  /\ run_result = NoRun
  /\ sent = 0
  /\ now = 0
  /\ next_run = 0
  /\ caller = ""
  /\ issue_calls = 0
  /\ loop_runs = 0
  /\ reports = 0
  /\ submissions = 0

\* Every persisted state and every configuration a stream connector can start from.
InitStreamStart ==
  /\ connector_type = "STREAM"
  /\ base_config \in StreamConfigs
  /\ \E cursors \in PersistedCursors, deadlines \in PersistedDeadlines :
       state = cursors @@ deadlines
  /\ FreshCycle
  /\ NoStream
  /\ StreamThread

\* The event loop is followed from a fresh connector and from a restarted one.
InitStream ==
  /\ connector_type = "STREAM"
  /\ base_config = DefaultConfig
  /\ state \in {EmptyState, [start_from |-> <<2, 0>>]}
  /\ FreshCycle
  /\ NoStream
  /\ StreamThread

InitTlp ==
  /\ connector_type = "NONE"
  /\ base_config = DefaultConfig
  /\ state = EmptyState
  /\ FreshCycle
  /\ NoStream
  /\ IdleThread

SpecTlp == InitTlp /\ [][CheckMaxTlp]_vars

NextStreamStart ==
  \/ StreamInputConnector_start
  \/ StreamIssueCall_connect

NextStream ==
  \/ StreamInputConnector_start
  \/ StreamIssueCall_connect
  \/ StreamIssueCall_next_event
  \/ StreamIssueCall_connection_closed
  \/ StreamIssueCall_stop_check
  \/ StreamIssueCall_put
  \/ StreamIssueCall_run
  \/ StreamIssueCall_send_bundle
  \/ StreamIssueCall_set_state
  \/ StreamInputConnector_loop
  \/ StreamInputConnector_sleep
  \/ StreamInputConnector_stop
  \/ StreamAlive_run

SpecStreamStart == InitStreamStart /\ [][NextStreamStart]_vars

SpecStream == InitStream /\ [][NextStream]_vars

\* The main thread of the connector keeps running: the loop of start() takes its
\* next step whenever it has one.  Nothing obliges another thread to call _stop.
SpecStreamFair ==
  /\ SpecStream
  /\ WF_vars(StreamInputConnector_loop)
  /\ WF_vars(StreamInputConnector_sleep)

\* The event loop with the process ending and being started again.
NextStreamRestart == NextStream \/ StreamInputConnector_restart

SpecStreamRestart == InitStream /\ [][NextStreamRestart]_vars

NextExternal ==
  \/ ExternalInputConnector_start
  \/ IssueCall_initiate_work
  \/ IssueCall_run
  \/ IssueCall_to_processed
  \/ IssueCall_send_bundle
  \/ IssueCall_set_last_run
  \/ ExternalInputConnector_loop
  \/ schedule_run_pending
  \/ time_sleep
  \/ ExternalInputConnector_stop

NextListen ==
  \/ Connector_on_message
  \/ InternalEnrichmentConnector_process_broker_message
  \/ InternalFileInputConnector_process_broker_message

SpecExternal == InitExternal /\ [][NextExternal]_vars

SpecListen == (InitEnrichment \/ InitFileInput) /\ [][NextListen]_vars

Init == InitExternal \/ InitEnrichment \/ InitFileInput \/ InitStream

Next == NextExternal \/ NextListen \/ NextStream

Spec == Init /\ [][Next]_vars

(***************************************************************************)
(* Reading the call log.                                                   *)
(***************************************************************************)
CallsOf(op) == {i \in 1..Len(log) : log[i].op = op}

ReportsFor(work) == {i \in CallsOf("to_processed") : log[i].work = work}

BundleCalls == CallsOf("send_bundle") \cup CallsOf("upload_pending_file")

ListenConnector == connector_type \in {"INTERNAL_ENRICHMENT", "INTERNAL_IMPORT_FILE"}

\* The poll connector is between two cycles: the log is that of a whole cycle.
ExternalCycleEnded ==
  /\ connector_type = "EXTERNAL_IMPORT"
  /\ pc \in {"loop", "run_pending", "sleep", "returned", "crashed"}
  /\ issue_calls > 0

(***************************************************************************)
(* C1: every WorkUnit that was created (initiate_work) or taken from a     *)
(* well-formed inbound message has exactly one to_processed report issued  *)
(* for it by the end of the cycle, and a malformed message has none.       *)
(***************************************************************************)
C1_ExactlyOneTerminalReport ==
  /\ (ListenConnector /\ pc = "listening") =>
       Cardinality(ReportsFor(message.work_id)) = (IF message.valid THEN 1 ELSE 0)
  /\ (ExternalCycleEnded /\ work_id # 0) =>
       Cardinality(ReportsFor(work_id)) = 1

(***************************************************************************)
(* C2: the persisted start_from follows the ids of the events in the order *)
(* the server delivers them.  Between two events it equals the id of the   *)
(* last event delivered with an id, whatever the run of that event         *)
(* returned; it changes only to the id of the event being processed; it    *)
(* never moves back to a smaller id.                                       *)
(***************************************************************************)
C2_CursorFollowsEvents ==
  /\ []((connector_type = "STREAM" /\ pc = "wait") => state.start_from = last_id)
  /\ [][(connector_type = "STREAM" /\ conn.open /\ state'.start_from # state.start_from)
          => /\ pc = "persist"
             /\ state'.start_from = msg.id
             /\ CursorLess(state.start_from, state'.start_from)]_vars

\* Three events with the ids 1-0, 2-0, 3-0 were processed from a cold start and
\* the run of the third returned no work id.
C2_Witness ==
  /\ connector_type = "STREAM"
  /\ pc = "wait"
  /\ conn.from = <<0, 0>>
  /\ delivered = 3
  /\ msg = [id |-> <<3, 0>>, event |-> "create"]
  /\ run_result.work = 0
  /\ CallsOf("run") # {}
  /\ state.start_from = <<3, 0>>

(***************************************************************************)
(* C3: no exception leaves issue_call, process_broker_message or the       *)
(* stream event loop, whichever collaborator call fails.                   *)
(***************************************************************************)
C3_NoExceptionEscapes == ~escaped

(***************************************************************************)
(* C4: in the enrichment connector the user's run is invoked and bundles   *)
(* are submitted only if no TLP marking of the entity is above the         *)
(* configured max_tlp; when a marking is above it, a to_processed report   *)
(* with isError = true is issued for the work, the run is not invoked and  *)
(* no bundle is submitted.                                                 *)
(***************************************************************************)
Exceeds(tlp, max_tlp) ==
  /\ tlp \in KnownTLP
  /\ max_tlp \in KnownTLP
  /\ TLPRank(tlp) > TLPRank(max_tlp)

MarkingsAbove(max_tlp) ==
  {i \in 1..Len(observable.objectMarking) :
     /\ observable.objectMarking[i].definition_type = "TLP"
     /\ Exceeds(observable.objectMarking[i].definition, max_tlp)}

C4_TlpGate ==
  (connector_type = "INTERNAL_ENRICHMENT" /\ observable.result = "found") =>
    /\ (CallsOf("run") # {} \/ BundleCalls # {}) => MarkingsAbove(base_config.max_tlp) = {}
    /\ MarkingsAbove(base_config.max_tlp) # {} =>
         /\ \E i \in ReportsFor(message.work_id) : log[i].isError
         /\ CallsOf("run") = {}
         /\ BundleCalls = {}

\* An entity marked TLP:GREEN and TLP:RED under the ceiling TLP:AMBER was refused
\* and reported.
C4_Witness ==
  /\ connector_type = "INTERNAL_ENRICHMENT"
  /\ base_config.max_tlp = "TLP:AMBER"
  /\ observable.result = "found"
  /\ observable.objectMarking = <<[definition_type |-> "TLP", definition |-> "TLP:GREEN"],
                                  [definition_type |-> "TLP", definition |-> "TLP:RED"]>>
  /\ \E i \in ReportsFor(message.work_id) : log[i].isError /\ log[i].msg = TlpError
  /\ CallsOf("run") = {}

(***************************************************************************)
(* C5: over WHITE < GREEN < AMBER < RED, check_max_tlp(tlp, ceiling) is    *)
(* true exactly when tlp is at or below ceiling; it is reflexive, and      *)
(* monotonic in the ceiling; (GREEN, AMBER) is true, (RED, AMBER) false.   *)
(***************************************************************************)
OverLevels(check) == check.tlp \in KnownTLP /\ check.max_tlp \in KnownTLP

C5_CheckMaxTlpIsTheOrder ==
  \A i \in 1..Len(tlp_checks) :
    LET c == tlp_checks[i] IN
    OverLevels(c) =>
      /\ ~c.raised
      /\ c.result <=> (TLPRank(c.tlp) <= TLPRank(c.max_tlp))
      /\ c.tlp = c.max_tlp => c.result
      /\ (c.tlp = "TLP:GREEN" /\ c.max_tlp = "TLP:AMBER") => c.result
      /\ (c.tlp = "TLP:RED" /\ c.max_tlp = "TLP:AMBER") => ~c.result
      /\ \A j \in 1..Len(tlp_checks) :
           LET d == tlp_checks[j] IN
           (OverLevels(d) /\ d.tlp = c.tlp /\ c.result
              /\ TLPRank(d.max_tlp) >= TLPRank(c.max_tlp)) => d.result

\* GREEN was checked against AMBER and passed, then RED against AMBER and failed.
C5_Witness ==
  /\ Len(tlp_checks) = 2
  /\ tlp_checks[1] = [tlp |-> "TLP:GREEN", max_tlp |-> "TLP:AMBER", raised |-> FALSE,
                      result |-> TRUE]
  /\ tlp_checks[2] = [tlp |-> "TLP:RED", max_tlp |-> "TLP:AMBER", raised |-> FALSE,
                      result |-> FALSE]

(***************************************************************************)
(* C6: every issue_call of the poll connector whose run returns ("ok", []) *)
(* issues exactly one to_processed report, whose message is the summary    *)
(* "ok" with isError false, and no bundle submission; n invocations give n *)
(* reports and no submission.                                              *)
(***************************************************************************)
RanOkWithoutBundles ==
  /\ ExternalCycleEnded
  /\ CallsOf("run") # {}
  /\ run_result = [raised |-> FALSE, run_msg |-> "ok", bundles_none |-> FALSE,
                   bundles |-> <<>>]

C6_OneProcessedOkPerInvocation ==
  RanOkWithoutBundles =>
    /\ Cardinality(ReportsFor(work_id)) = 1
    /\ \A i \in ReportsFor(work_id) : log[i].msg = "ok" /\ ~log[i].isError
    /\ BundleCalls = {}

(***************************************************************************)
(* C7: with run_and_terminate the stop signal is raised before start():    *)
(* issue_call is invoked once, by start() itself, the loop body (the       *)
(* scheduler and the sleep) never runs, and the loop test ends start().    *)
(***************************************************************************)
C7_RunOnce ==
  (connector_type = "EXTERNAL_IMPORT" /\ base_config.run_and_terminate) =>
    /\ stop_event
    /\ issue_calls <= 1
    /\ loop_runs = 0
    /\ pc \notin {"run_pending", "sleep"}
    /\ caller # "schedule"
    /\ pc \in {"loop", "returned"} => issue_calls = 1

C7_Witness ==
  /\ connector_type = "EXTERNAL_IMPORT"
  /\ base_config.run_and_terminate
  /\ pc = "returned"
  /\ issue_calls = 1
  /\ loop_runs = 0

(***************************************************************************)
(* C8: the liveness queue never holds more than one element, the push of   *)
(* the event thread can always be taken and leaves a full queue as it is,  *)
(* and every event that reaches the push is processed whatever the queue   *)
(* holds: the run is invoked for a data event and the cursor is persisted. *)
(***************************************************************************)
ControlEvent(e) == e.event = "heartbeat" \/ e.event = "connected"

C8_LivenessQueueNeverBlocks ==
  /\ [](Len(work_queue) <= 1)
  /\ []((connector_type = "STREAM" /\ pc = "put") => ENABLED StreamIssueCall_put)
  /\ [][(connector_type = "STREAM" /\ pc = "put" /\ pc' # "put")
          => /\ Len(work_queue) = 1 => work_queue' = work_queue
             /\ pc' = IF ControlEvent(msg) THEN "persist" ELSE "run"]_vars
  /\ []((connector_type = "STREAM" /\ pc = "wait" /\ msg.id # NoId)
          => /\ CallsOf("put") # {}
             /\ ~ControlEvent(msg) => CallsOf("run") # {}
             /\ state.start_from = msg.id)

\* The second push found the queue full, was dropped, and the event was processed.
C8_Witness ==
  /\ connector_type = "STREAM"
  /\ pc = "wait"
  /\ delivered >= 2
  /\ Len(work_queue) = 1
  /\ \E i \in CallsOf("put") : ~log[i].ok
  /\ ~ControlEvent(msg)
  /\ CallsOf("run") # {}
  /\ state.start_from = msg.id

(***************************************************************************)
(* C9: the connection is opened from the persisted start_from, else the    *)
(* legacy connectorLastEventId, else "<start timestamp>-0", else "0-0",    *)
(* and recovers until the persisted recover_until, else the legacy         *)
(* connectorStartTime, else the configured date, else the current time.    *)
(***************************************************************************)
ChosenStartFrom ==
  IF "start_from" \in DOMAIN state THEN state["start_from"]
  ELSE IF "connectorLastEventId" \in DOMAIN state THEN state["connectorLastEventId"]
  ELSE IF base_config.live_stream_start_timestamp # 0
    THEN <<base_config.live_stream_start_timestamp, 0>>
  ELSE <<0, 0>>

ChosenRecoverUntil ==
  IF "recover_until" \in DOMAIN state THEN state["recover_until"]
  ELSE IF "connectorStartTime" \in DOMAIN state THEN state["connectorStartTime"]
  ELSE IF base_config.live_stream_recover_iso_date # <<>>
    THEN base_config.live_stream_recover_iso_date
  ELSE <<ToString(now), "Z">>

C9_CursorFallbackChain ==
  [][(connector_type = "STREAM" /\ pc = "issue_call" /\ pc' = "wait")
       => /\ conn'.open
          /\ conn'.from = ChosenStartFrom
          /\ conn'.recover = ChosenRecoverUntil
          /\ (state = EmptyState /\ base_config.live_stream_start_timestamp = 0)
               => conn'.from = <<0, 0>>]_vars

\* A cold start: nothing persisted, nothing configured, the stream opens at 0-0.
C9_Witness ==
  /\ connector_type = "STREAM"
  /\ conn.open
  /\ conn.from = <<0, 0>>
  /\ conn.recover = <<"0", "Z">>
  /\ base_config.live_stream_start_timestamp = 0
  /\ base_config.live_stream_recover_iso_date = <<>>

(***************************************************************************)
(* C10: when the run of the poll connector raises, the error is persisted  *)
(* under the key error, one to_processed(work_id, error, true) is          *)
(* attempted, its failure is swallowed, issue_call returns to its caller,  *)
(* no bundle is submitted, the last-run marker is left as it was, and the  *)
(* scheduler goes on.                                                      *)
(***************************************************************************)
C10_RunErrorIsReportedAndSwallowed ==
  [][(connector_type = "EXTERNAL_IMPORT" /\ pc = "run" /\ pc' # "run"
        /\ run_result'.raised)
       => /\ state'["error"] = RunError
          /\ Cardinality({i \in 1..Len(log') : log'[i].op = "to_processed"}) = 1
          /\ \A i \in 1..Len(log') :
               log'[i].op = "to_processed" =>
                 /\ log'[i].work = work_id
                 /\ log'[i].msg = RunError
                 /\ log'[i].isError
          /\ \A i \in 1..Len(log') :
               log'[i].op \notin {"send_bundle", "upload_pending_file", "set_last_run"}
          /\ ~escaped'
          /\ last_run' = last_run
          /\ pc' = IF caller = "start" THEN "loop" ELSE "sleep"
          /\ caller = "schedule" => next_run' = now' + base_config.interval]_vars

\* A scheduled run raised, the error report failed too, and the loop sleeps on.
C10_Witness ==
  /\ connector_type = "EXTERNAL_IMPORT"
  /\ run_result.raised
  /\ caller = "schedule"
  /\ pc = "sleep"
  /\ ~escaped
  /\ state["error"] = RunError
  /\ \E i \in ReportsFor(work_id) : log[i].isError /\ ~log[i].ok

(***************************************************************************)
(* C11: when the run raises for a stream event, the error is persisted     *)
(* under the key error and the consumer ends: the cursor is not moved to   *)
(* the id of the failing event, nothing is submitted, and from then on no  *)
(* event is received, pushed to the liveness queue or run, the state is    *)
(* not written and the connection is not opened again.                     *)
(***************************************************************************)
C11_StreamRunErrorEndsConsumer ==
  /\ [][(connector_type = "STREAM" /\ pc = "run" /\ run_result'.raised)
          => /\ state'["error"] = RunError
             /\ state'["start_from"] = state["start_from"]
             /\ state'["start_from"] # msg.id
             /\ \A i \in 1..Len(log') : log'[i].op # "send_bundle"
             /\ ~escaped'
             /\ pc' = "idle"]_vars
  /\ [][(connector_type = "STREAM" /\ run_result.raised)
          => /\ msg' = msg
             /\ delivered' = delivered
             /\ log' = log
             /\ state' = state
             /\ last_run' = last_run
             /\ conn' = conn
             /\ Len(work_queue') <= Len(work_queue)
             /\ pc' \in {"idle", "idle_sleep", "returned"}]_vars

\* The run of the first event raised while the feed had more events to give, and
\* start() idles in its loop.
C11_Witness ==
  /\ connector_type = "STREAM"
  /\ run_result.raised
  /\ pc = "idle_sleep"
  /\ delivered = 1
  /\ state["error"] = RunError
  /\ state["start_from"] = <<0, 0>>
  /\ msg.id = <<1, 0>>

(***************************************************************************)
(* C12: a message that fails the shape validation of a broker-driven       *)
(* connector is dropped: the handler issues no call at all (no received or *)
(* processed report, no read or write of the state store, no entity read,  *)
(* no download, no run, no submission), the state and the last-run marker  *)
(* stay as they were, and the handler returns.                             *)
(***************************************************************************)
C12_MalformedMessageIsDropped ==
  [][(ListenConnector /\ pc = "callback" /\ ~message.valid)
       => /\ log' = <<>>
          /\ state' = state
          /\ last_run' = last_run
          /\ observable' = NoObservable
          /\ ~escaped'
          /\ pc' = "listening"]_vars

\* After a cycle that had recorded an error and a last run, a malformed message
\* was dropped by the enrichment connector and left both in place.
C12_Witness ==
  /\ connector_type = "INTERNAL_ENRICHMENT"
  /\ pc = "listening"
  /\ ~message.valid
  /\ log = <<>>
  /\ "error" \in DOMAIN state
  /\ state["error"] = NotFoundError

(***************************************************************************)
(* C13: in the file connector, after a run that returned, every submission *)
(* comes after the report to_processed(summary) and after the deletion of  *)
(* the local file, in that order; the bundles are submitted in the order   *)
(* returned, each once, all to the pending-validation path with the file   *)
(* name and the entity id when validate_before_import is set and all       *)
(* directly under the applicant id of the message otherwise; a handler     *)
(* that returns has submitted every bundle.                                *)
(***************************************************************************)
FileCycleEnded ==
  /\ connector_type = "INTERNAL_IMPORT_FILE"
  /\ pc = "listening"
  /\ message.valid

ReturnedRuns == {r \in CallsOf("run") : log[r].ok}

SummaryReports(r) ==
  {p \in ReportsFor(message.work_id) :
     p > r /\ log[p].ok /\ ~log[p].isError /\ log[p].msg = log[r].msg}

Deletions(p) == {d \in CallsOf("os_remove") : d > p /\ log[d].ok}

C13_FileSuccessOrder ==
  FileCycleEnded =>
    /\ \A i \in BundleCalls :
         /\ \E r \in ReturnedRuns : \E p \in SummaryReports(r) : \E d \in Deletions(p) :
              d < i
         /\ log[i].bundle = Cardinality({j \in BundleCalls : j <= i})
         /\ \A r \in ReturnedRuns : log[i].bundle <= log[r].bundle
         /\ IF base_config.validate_before_import
              THEN /\ log[i].op = "upload_pending_file"
                   /\ log[i].file = basename(message.file_fetch)
                   /\ log[i].entity = message.entity_id
              ELSE /\ log[i].op = "send_bundle"
                   /\ log[i].work = message.work_id
                   /\ log[i].applicant = message.applicant_id
    /\ \A r \in ReturnedRuns :
         (~escaped /\ \E p \in SummaryReports(r) : Deletions(p) # {})
           => /\ Cardinality(BundleCalls) = log[r].bundle
              /\ \A i \in BundleCalls : log[i].ok

\* Two bundles went to the pending-validation path after the report and the
\* deletion, and the handler returned.
C13_Witness ==
  /\ FileCycleEnded
  /\ base_config.validate_before_import
  /\ ~escaped
  /\ Cardinality(CallsOf("upload_pending_file")) = 2
  /\ CallsOf("send_bundle") = {}
  /\ \E r \in ReturnedRuns : \E p \in SummaryReports(r) : Deletions(p) # {}

(***************************************************************************)
(* C14: the open stream connection carries the header authorization with   *)
(* the value "Bearer " followed by the configured token, and the headers   *)
(* listen-delete, no-dependencies and with-inferences with the values      *)
(* "true" or "false" of the three configured booleans.                     *)
(***************************************************************************)
LowercaseBoolean(b) == IF b THEN "true" ELSE "false"

C14_StreamHeaders ==
  (connector_type = "STREAM" /\ conn.open) =>
    /\ conn.headers.authorization = <<"Bearer ", base_config.token>>
    /\ conn.headers.listen_delete = LowercaseBoolean(base_config.live_stream_listen_delete)
    /\ conn.headers.no_dependencies =
         LowercaseBoolean(base_config.live_stream_no_dependencies)
    /\ conn.headers.with_inferences =
         LowercaseBoolean(base_config.live_stream_with_inferences)

(***************************************************************************)
(* C15: the poll connector runs issue_call at once on start and then once  *)
(* per interval: an invocation begins only from start() or from the        *)
(* scheduler when none is in flight, the scheduler begins one only when it *)
(* is due, and when an invocation completes the next one is due one full   *)
(* interval after that completion.                                         *)
(***************************************************************************)
InFlight == pc \in {"issue_call", "run", "report", "send"}

C15_OneRunPerInterval ==
  /\ [][(connector_type = "EXTERNAL_IMPORT" /\ ~InFlight /\ InFlight')
          => /\ pc \in {"start", "run_pending"}
             /\ pc = "start" => issue_calls = 0
             /\ pc = "run_pending" => now >= next_run]_vars
  /\ [][(connector_type = "EXTERNAL_IMPORT" /\ InFlight /\ pc' \in {"loop", "sleep"})
          => next_run' = now' + base_config.interval]_vars

(***************************************************************************)
(* C16: for a ceiling among the four levels, an entity that has no TLP     *)
(* marking, or whose TLP markings are all at or below the ceiling, passes  *)
(* the gate of the enrichment connector: the run is invoked and no report  *)
(* of a TLP above the ceiling is issued.                                   *)
(***************************************************************************)
TlpMarkings ==
  {i \in 1..Len(observable.objectMarking) :
     observable.objectMarking[i].definition_type = "TLP"}

C16_GatePassesAllowedEntities ==
  (/\ connector_type = "INTERNAL_ENRICHMENT"
   /\ pc = "listening"
   /\ observable.result = "found"
   /\ base_config.max_tlp \in KnownTLP
   /\ \A i \in TlpMarkings : observable.objectMarking[i].definition \in KnownTLP
   /\ MarkingsAbove(base_config.max_tlp) = {})
    => /\ CallsOf("run") # {}
       /\ \A i \in ReportsFor(message.work_id) : log[i].msg # TlpError

(***************************************************************************)
(* C17: in every connector that tracks a work (poll, enrichment, file) a   *)
(* to_processed report for a work id comes after a to_received report for  *)
(* the same work id, and the run comes after a to_received report.         *)
(***************************************************************************)
ReceivedBefore(i) == {j \in CallsOf("to_received") : j < i}

C17_ReceivedBeforeProcessed ==
  connector_type \in {"EXTERNAL_IMPORT", "INTERNAL_ENRICHMENT", "INTERNAL_IMPORT_FILE"} =>
    /\ \A i \in CallsOf("to_processed") :
         \E j \in ReceivedBefore(i) : log[j].work = log[i].work
    /\ \A r \in CallsOf("run") : ReceivedBefore(r) # {}

(***************************************************************************)
(* C18: on the success path of the poll connector every submission comes   *)
(* after the processed report, the bundles are submitted in the order      *)
(* returned and each once, the last-run marker is stored only after the    *)
(* last bundle was submitted, and it changes in no other step: a cycle     *)
(* that ends before the report leaves it as it was.  A cycle that returns  *)
(* after a run that returned has submitted every bundle and stored it.     *)
(***************************************************************************)
SuccessReports == {p \in ReportsFor(work_id) : ~log[p].isError}

SubmittedBefore(i) == {j \in CallsOf("send_bundle") : j < i /\ log[j].ok}

C18_ExternalOrder ==
  (connector_type = "EXTERNAL_IMPORT" /\ ~run_result.bundles_none) =>
    /\ \A i \in CallsOf("send_bundle") :
         /\ \E p \in SuccessReports : p < i /\ log[p].ok
         /\ log[i].work = work_id
         /\ log[i].bundle = run_result.bundles[Cardinality(SubmittedBefore(i)) + 1]
         /\ Cardinality(SubmittedBefore(i)) = Cardinality({j \in CallsOf("send_bundle") : j < i})
    /\ \A l \in CallsOf("set_last_run") :
         /\ Cardinality(SubmittedBefore(l)) = Len(run_result.bundles)
         /\ \A i \in CallsOf("send_bundle") : i < l
         /\ \E p \in SuccessReports : p < l
    /\ (ExternalCycleEnded /\ ~escaped /\ CallsOf("run") # {} /\ ~run_result.raised)
         => /\ Cardinality(CallsOf("send_bundle")) = Len(run_result.bundles)
            /\ CallsOf("set_last_run") # {}

C18_LastRunOnlyAfterBundles ==
  /\ []C18_ExternalOrder
  /\ [][(connector_type = "EXTERNAL_IMPORT" /\ last_run' # last_run)
          => /\ pc = "send"
             /\ SuccessReports # {}
             /\ Cardinality(CallsOf("send_bundle")) = Len(run_result.bundles)
             /\ last_run' = now]_vars

\* A scheduled cycle reported, submitted its two bundles and stored the last run.
C18_Witness ==
  /\ ExternalCycleEnded
  /\ caller = "schedule"
  /\ ~escaped
  /\ Len(run_result.bundles) = 2
  /\ Cardinality(CallsOf("send_bundle")) = 2
  /\ CallsOf("set_last_run") # {}
  /\ last_run = now
  /\ now > 0

(***************************************************************************)
(* C19: when the entity of an enrichment message is not found, the error   *)
(* is recorded in the state, one to_processed(work_id, error, true) is     *)
(* issued for the work of the message, the last-run marker is updated and  *)
(* the handler returns; the gate is not evaluated, the run is not invoked  *)
(* and no bundle is submitted.                                             *)
(***************************************************************************)
EntityNotFound ==
  /\ connector_type = "INTERNAL_ENRICHMENT"
  /\ pc = "listening"
  /\ observable.result = "none"

C19_NotFoundIsReported ==
  EntityNotFound =>
    /\ state["error"] = NotFoundError
    /\ Cardinality(ReportsFor(message.work_id)) = 1
    /\ \A i \in ReportsFor(message.work_id) : log[i].isError /\ log[i].msg = NotFoundError
    /\ CallsOf("run") = {}
    /\ BundleCalls = {}
    /\ CallsOf("set_last_run") # {}
    /\ ~escaped

(***************************************************************************)
(* C20: while the stop signal is not raised, when the stream loop is done  *)
(* with an event, the run was not invoked if the event is a heartbeat or a *)
(* connected event, and was invoked exactly once for any other event,      *)
(* with or without an id.                                                  *)
(***************************************************************************)
EventDone ==
  /\ connector_type = "STREAM"
  /\ pc = "wait"
  /\ delivered > 0
  /\ ~stop_event

C20_RunOncePerDataEvent ==
  EventDone =>
    Cardinality(CallsOf("run")) = (IF ControlEvent(msg) THEN 0 ELSE 1)

(***************************************************************************)
(* C21: the persisted start_from is the value chosen when issue_call       *)
(* starts, or the id of an event that is a control event or whose run      *)
(* returned and whose submissions were all issued.  It is written only at  *)
(* startup and at the end of the loop body; while an event is in hand its  *)
(* id is not the cursor, and it never becomes the cursor when the run of   *)
(* the event raised.                                                       *)
(***************************************************************************)
EventInHand ==
  /\ connector_type = "STREAM"
  /\ pc \in {"stop_check", "put", "run", "send", "persist"}

\* The submissions the loop makes for what the run returned.
DueSubmissions ==
  IF run_result.work # 0 /\ ~run_result.bundles_none THEN Len(run_result.bundles) ELSE 0

FullyProcessed ==
  \/ ControlEvent(msg)
  \/ /\ CallsOf("run") # {}
     /\ ~run_result.raised
     /\ Cardinality(CallsOf("send_bundle")) = DueSubmissions
     /\ \A i \in CallsOf("send_bundle") : log[i].ok

C21_CursorOnlyAfterProcessing ==
  /\ []((EventInHand /\ msg.id # NoId) => CursorLess(state.start_from, msg.id))
  /\ []((connector_type = "STREAM" /\ CallsOf("run") # {} /\ run_result.raised)
          => state.start_from # msg.id)
  /\ [][(connector_type = "STREAM"
           /\ get(state', "start_from", <<>>) # get(state, "start_from", <<>>))
          => \/ /\ pc = "issue_call"
                /\ state'.start_from = start_from_of(state, base_config)
             \/ /\ pc = "persist"
                /\ msg.id # NoId
                /\ state'.start_from = msg.id
                /\ FullyProcessed]_vars

\* The run of the second event returned a work id and two bundles, both were
\* submitted, and the cursor is the id of that event.
C21_Witness ==
  /\ connector_type = "STREAM"
  /\ pc = "wait"
  /\ delivered = 2
  /\ ~ControlEvent(msg)
  /\ CallsOf("run") # {}
  /\ Cardinality(CallsOf("send_bundle")) = 2
  /\ state.start_from = msg.id
  /\ state.start_from # conn.from

(***************************************************************************)
(* C22: the stream loop looks at the stop signal once per received event,  *)
(* first thing in the loop body.  With the signal raised the event ends    *)
(* the loop: it is not pushed to the liveness queue, the run is not        *)
(* invoked, nothing is submitted, the state is not written.  With the      *)
(* signal clear the event goes on into the body, and nothing later in the  *)
(* body looks at the signal.  While it waits for an event the consumer     *)
(* leaves the wait only for an event or the end of the connection, signal  *)
(* raised or not.                                                          *)
(***************************************************************************)
StreamStep(at) == connector_type = "STREAM" /\ pc = at /\ pc' # at

C22_StopCheckedOncePerEvent ==
  /\ [][(StreamStep("stop_check") /\ stop_event)
          => /\ pc' = "idle"
             /\ log' = <<>>
             /\ work_queue' = work_queue
             /\ state' = state
             /\ last_run' = last_run
             /\ ~escaped']_vars
  /\ [][(StreamStep("stop_check") /\ ~stop_event)
          => pc' = IF msg.id = NoId THEN "wait" ELSE "put"]_vars
  /\ [][(StreamStep("put") \/ StreamStep("run") \/ StreamStep("send")
           \/ StreamStep("persist"))
          => \/ pc' \in {"run", "send", "persist", "wait", "crashed"}
             \/ run_result'.raised]_vars
  /\ [][StreamStep("wait")
          => \/ pc' = "stop_check" /\ delivered' = delivered + 1
             \/ ~conn'.open]_vars
  /\ [][(connector_type = "STREAM" /\ stop_event /\ pc \in {"idle", "returned"})
          => /\ pc' = "returned"
             /\ log' = log
             /\ state' = state
             /\ delivered' = delivered]_vars

\* The signal was raised after the second event had passed its check; the third
\* event, a data event with an id, ended the loop and start() returned.
C22_Witness ==
  /\ connector_type = "STREAM"
  /\ pc = "returned"
  /\ stop_event
  /\ conn.open
  /\ delivered = 3
  /\ ~ControlEvent(msg)
  /\ msg.id # NoId
  /\ log = <<>>
  /\ CursorLess(state.start_from, msg.id)

(***************************************************************************)
(* C23: a stream connector that ends anywhere in the event loop and is     *)
(* started again opens the stream from the persisted start_from, which is  *)
(* the id of the last event whose cursor write completed.  The server      *)
(* sends the feed again from there, so the cursor never passes an event    *)
(* of the feed that was not received, nor a data event that was not handed *)
(* to run; and at any moment at most one event above the cursor has been   *)
(* handed to run: that event alone is handed to run a second time.         *)
(***************************************************************************)
C23_RestartResumesFromCursor ==
  /\ [][(connector_type = "STREAM" /\ pc = "issue_call" /\ conn'.open
           /\ "start_from" \in DOMAIN state)
          => /\ conn'.from = state.start_from
             /\ last_id' = state.start_from
             /\ state'.start_from = state.start_from]_vars
  /\ [](connector_type = "STREAM" => Cardinality(handed) <= 1)
  /\ [](connector_type = "STREAM"
          => \A id \in handed : /\ CursorLess(state.start_from, id)
                                /\ \E f \in feed : f.id = id)
  /\ [][(connector_type = "STREAM" /\ pc = "persist" /\ pc' = "wait")
          => /\ state'.start_from = msg.id
             /\ ControlEvent(msg) \/ msg.id \in handed
             /\ \A f \in feed : ~(CursorLess(state.start_from, f.id)
                                    /\ CursorLess(f.id, msg.id))]_vars
  /\ [][(connector_type = "STREAM" /\ pc = "wait" /\ pc' = "stop_check"
           /\ msg'.id # NoId)
          => \A f \in feed : ~(CursorLess(state.start_from, f.id)
                                 /\ CursorLess(f.id, msg'.id))]_vars

\* The process ended after the run of a data event was invoked and before the
\* cursor was written; started again, it opened the stream from the cursor of the
\* event before and is about to hand the same event to run a second time.
C23_Witness ==
  /\ connector_type = "STREAM"
  /\ pc = "run"
  /\ msg.id \in handed
  /\ CallsOf("run") = {}
  /\ conn.open
  /\ conn.from = state.start_from
  /\ conn.from # <<0, 0>>
  /\ delivered = 3

(***************************************************************************)
(* C24: once the stream connection has terminated (the iterator ended or   *)
(* raised) the connector does not retry: the connection is not opened      *)
(* again, no event is received, nothing is called; and the connector ends: *)
(* start() is left, whether or not the stop signal is ever raised.         *)
(***************************************************************************)
ConnectionTerminated ==
  /\ connector_type = "STREAM"
  /\ ~conn.open
  /\ conn.from # <<>>

StartLeft == pc \in {"returned", "crashed"}

C24_NoRetry ==
  [][ConnectionTerminated
       => /\ conn' = conn
          /\ delivered' = delivered
          /\ log' = log
          /\ state' = state]_vars

C24_TerminatedConnectionEndsConnector ==
  /\ C24_NoRetry
  /\ ConnectionTerminated ~> StartLeft

(***************************************************************************)
(* C25: in the poll, enrichment and file-import connectors every bundle    *)
(* submission of a cycle, direct or to pending validation, comes after a   *)
(* to_processed report of the cycle's work id with isError false that      *)
(* returned, and a work id that has an error report has no submission.     *)
(***************************************************************************)
WorkConnector ==
  connector_type \in {"EXTERNAL_IMPORT", "INTERNAL_ENRICHMENT", "INTERNAL_IMPORT_FILE"}

\* The work id of the cycle: local work_id of issue_call, msg.internal.work_id.
CycleWork == IF connector_type = "EXTERNAL_IMPORT" THEN work_id ELSE message.work_id

\* A pending-validation upload carries no work id: it belongs to the cycle's work.
SubmissionWork(i) == IF log[i].op = "send_bundle" THEN log[i].work ELSE CycleWork

C25_SubmissionsFollowSuccessReport ==
  WorkConnector =>
    \A i \in BundleCalls :
      /\ SubmissionWork(i) = CycleWork
      /\ \E p \in ReportsFor(SubmissionWork(i)) :
           p < i /\ ~log[p].isError /\ log[p].ok
      /\ \A p \in ReportsFor(SubmissionWork(i)) : ~log[p].isError

\* The file-import connector reported the run of work 2, removed the file and
\* submitted two bundles directly.
C25_Witness ==
  /\ connector_type = "INTERNAL_IMPORT_FILE"
  /\ pc = "listening"
  /\ ~base_config.validate_before_import
  /\ message.valid
  /\ message.work_id = 2
  /\ Cardinality(CallsOf("send_bundle")) = 2
  /\ \A i \in CallsOf("send_bundle") : log[i].ok /\ log[i].work = 2
  /\ Cardinality(ReportsFor(2)) = 1
  /\ ~escaped

(***************************************************************************)
(* C26: the stop signal raised while a cycle is in flight does not cut the *)
(* cycle short.  An issue_call of the poll connector that has started goes *)
(* on to its report, all its submissions and the last-run write with the   *)
(* signal raised as without it; a stream event that has passed the stop    *)
(* check has its bundles submitted and its id persisted.  The signal only  *)
(* keeps later work from starting: a scheduled invocation begins only from *)
(* run_pending, and once the loop of start() is at its sleep or its test   *)
(* with the signal raised no invocation begins any more, so at most one    *)
(* scheduled invocation begins after the signal.                           *)
(***************************************************************************)
ExternalInCycle ==
  /\ connector_type = "EXTERNAL_IMPORT"
  /\ pc \in {"issue_call", "run", "report", "send"}

PastScheduling == pc \in {"sleep", "loop", "returned", "crashed"}

C26_ExternalCycleNotCut ==
  /\ (connector_type = "EXTERNAL_IMPORT" /\ stop_event)
       => /\ pc = "issue_call" => ENABLED IssueCall_initiate_work
          /\ pc = "report" => ENABLED IssueCall_to_processed
          /\ (pc = "send" /\ ~run_result.bundles_none)
               => IF sent < Len(run_result.bundles)
                    THEN ENABLED IssueCall_send_bundle
                    ELSE ENABLED IssueCall_set_last_run
  /\ (ExternalCycleEnded /\ stop_event /\ ~escaped /\ CallsOf("run") # {}
        /\ ~run_result.raised)
       => /\ \E p \in ReportsFor(work_id) : ~log[p].isError /\ log[p].ok
          /\ Cardinality(CallsOf("send_bundle")) = Len(run_result.bundles)
          /\ \A i \in CallsOf("send_bundle") : log[i].ok
          /\ CallsOf("set_last_run") # {}

C26_StreamEventNotCut ==
  /\ (connector_type = "STREAM" /\ stop_event)
       => /\ pc = "put" => ENABLED StreamIssueCall_put
          /\ pc = "send" => ENABLED StreamIssueCall_send_bundle
          /\ pc = "persist" => ENABLED StreamIssueCall_set_state
  /\ (connector_type = "STREAM" /\ stop_event /\ pc = "wait" /\ msg.id # NoId)
       => /\ state.start_from = msg.id
          /\ FullyProcessed

C26_StopNeverTruncatesACycle ==
  /\ [](C26_ExternalCycleNotCut /\ C26_StreamEventNotCut)
  /\ [][(connector_type = "EXTERNAL_IMPORT" /\ stop_event /\ issue_calls' > issue_calls)
          => pc = "issue_call"]_vars
  /\ [][(connector_type = "EXTERNAL_IMPORT" /\ stop_event /\ pc' = "issue_call"
           /\ pc # "issue_call")
          => \/ pc = "start" /\ caller' = "start"
             \/ pc = "run_pending" /\ caller' = "schedule"]_vars
  /\ [][(ExternalInCycle /\ stop_event /\ caller = "schedule" /\ ~ExternalInCycle')
          => PastScheduling']_vars
  /\ [][(connector_type = "EXTERNAL_IMPORT" /\ stop_event /\ PastScheduling)
          => /\ PastScheduling'
             /\ issue_calls' = issue_calls]_vars
  /\ [][(connector_type = "STREAM" /\ stop_event /\ pc = "stop_check" /\ pc' # pc)
          => pc' = "idle" /\ state' = state]_vars

\* A stream event passed the stop check, the signal was raised, and the event
\* still had its two bundles submitted and its id persisted; the consumer waits
\* for the event that will end the loop.
C26_Witness ==
  /\ connector_type = "STREAM"
  /\ stop_event
  /\ stream_alive = "stopped"
  /\ pc = "wait"
  /\ ~ControlEvent(msg)
  /\ Cardinality(CallsOf("send_bundle")) = 2
  /\ CallsOf("set_last_run") # {}
  /\ state.start_from = msg.id

=============================================================================
